---- MODULE Spec2Model ----
(***************************************************************************)
(* A model of pm-agent/main.py: the Tool Executor (_execute_tool), the     *)
(* Agent Loop (ProductManagerAgent.run) and the Session Shell (main).      *)
(*                                                                         *)
(* Strings are kept as "texts": sequences of pieces, each piece a string.  *)
(* A string the code inspects character by character (str.strip,           *)
(* str.lower, str.upper, the escaping of json.dumps) is given one          *)
(* character per piece; a literal of the code is one piece.  Flat joins    *)
(* the pieces, and two texts are the same Python string exactly when       *)
(* their Flat images are equal.                                            *)
(*                                                                         *)
(* Numbers are decimals m / 10^e, an int when e = 0 and a float otherwise. *)
(* Float arithmetic is carried out exactly; the inputs drawn below leave   *)
(* out the products that land exactly half way between two hundredths,     *)
(* where the binary float may sit on either side of the tie.               *)
(***************************************************************************)
EXTENDS Integers, Sequences, FiniteSets, TLC

VARIABLES
    shell,        \* where main is: "reading", "calling", "handling", "ended"
    line,         \* the line input() returned last, before .strip()
    messages,     \* run's local list `messages`; once run has returned or raised,
                  \* what it held at that moment
    response,     \* run's local `response`: what messages.create returned last
    sentLog,      \* history: the conversations passed to messages.create in this run
    recvLog,      \* history: the responses messages.create returned in this run
    toolLog,      \* history: the (name, input) pairs _execute_tool was called with in this run
    lastOutput,   \* what main printed last for a turn: the response or the error
    lastEvent,    \* history: which branch of the code the last step took
    prevEnd,      \* history: how the previous turn ended ("none" before the first)
    turns,        \* history: number of turns started
    invocation,   \* executor harness: the (name, input) pair under test
    toolResult    \* executor harness: what _execute_tool did with it

vars == <<shell, line, messages, response, sentLog, recvLog, toolLog, lastOutput,
          lastEvent, prevEnd, turns, invocation, toolResult>>

sessionVars == <<shell, line, messages, response, sentLog, recvLog, toolLog, lastOutput,
                 lastEvent, prevEnd, turns>>

(***************************************************************************)
(* Bounds of the model.                                                    *)
(***************************************************************************)
MaxTurns == 2
MaxRequests == 3
MaxEffort == 5

-----------------------------------------------------------------------------
(***************************************************************************)
(* Texts.                                                                  *)
(***************************************************************************)
RECURSIVE Flat(_)
Flat(t) == IF t = <<>> THEN "" ELSE t[1] \o Flat(Tail(t))

LowerOf ==
    [A |-> "a", B |-> "b", C |-> "c", D |-> "d", E |-> "e", F |-> "f", G |-> "g",
     H |-> "h", I |-> "i", J |-> "j", K |-> "k", L |-> "l", M |-> "m", N |-> "n",
     O |-> "o", P |-> "p", Q |-> "q", R |-> "r", S |-> "s", T |-> "t", U |-> "u",
     V |-> "v", W |-> "w", X |-> "x", Y |-> "y", Z |-> "z"]

UpperOf ==
    [a |-> "A", b |-> "B", c |-> "C", d |-> "D", e |-> "E", f |-> "F", g |-> "G",
     h |-> "H", i |-> "I", j |-> "J", k |-> "K", l |-> "L", m |-> "M", n |-> "N",
     o |-> "O", p |-> "P", q |-> "Q", r |-> "R", s |-> "S", t |-> "T", u |-> "U",
     v |-> "V", w |-> "W", x |-> "X", y |-> "Y", z |-> "Z"]

\* str.lower() and str.upper(), character by character
Lower(t) == [i \in 1..Len(t) |-> IF t[i] \in DOMAIN LowerOf THEN LowerOf[t[i]] ELSE t[i]]
Upper(t) == [i \in 1..Len(t) |-> IF t[i] \in DOMAIN UpperOf THEN UpperOf[t[i]] ELSE t[i]]

Whitespace == {" ", "\t", "\n", "\r"}

RECURSIVE LStrip(_)
LStrip(t) == IF t # <<>> /\ t[1] \in Whitespace THEN LStrip(Tail(t)) ELSE t

RECURSIVE RStrip(_)
RStrip(t) ==
    IF t # <<>> /\ t[Len(t)] \in Whitespace THEN RStrip(SubSeq(t, 1, Len(t) - 1)) ELSE t

\* str.strip()
Strip(t) == RStrip(LStrip(t))

-----------------------------------------------------------------------------
(***************************************************************************)
(* JSON values (what tool inputs and tool results are made of) and         *)
(* json.dumps with its default separators.                                 *)
(***************************************************************************)
JStr(t) == [t |-> "str", v |-> t]
JInt(n) == [t |-> "num", m |-> n, e |-> 0]
JDec(m, e) == [t |-> "num", m |-> m, e |-> e]
JObj(pairs) == [t |-> "obj", v |-> pairs]      \* pairs: <<key, value>>, in insertion order
JArr(items) == [t |-> "arr", v |-> items]

HasKey(obj, k) == \E i \in 1..Len(obj.v) : obj.v[i][1] = k
Get(obj, k) == obj.v[CHOOSE i \in 1..Len(obj.v) : obj.v[i][1] = k][2]

RECURSIVE Pow10(_)
Pow10(e) == IF e = 0 THEN 1 ELSE 10 * Pow10(e - 1)

RECURSIVE Digits(_, _)
\* n written with exactly k digits
Digits(n, k) == IF k = 0 THEN "" ELSE Digits(n \div 10, k - 1) \o ToString(n % 10)

RECURSIVE FloatRepr(_, _)
\* repr() of the float m / 10^e (m >= 0, e >= 1): shortest form, at least one decimal
FloatRepr(m, e) ==
    IF e > 1 /\ m % 10 = 0 THEN FloatRepr(m \div 10, e - 1)
    ELSE ToString(m \div Pow10(e)) \o "." \o Digits(m % Pow10(e), e)

NumRepr(n) == IF n.e = 0 THEN ToString(n.m) ELSE FloatRepr(n.m, n.e)

\* the escapes json.dumps applies to the characters the model draws
EscapePiece(p) ==
    CASE p = "\"" -> "\\\""
      [] p = "\\" -> "\\\\"
      [] p = "\n" -> "\\n"
      [] p = "\t" -> "\\t"
      [] p = "\r" -> "\\r"
      [] OTHER -> p

RECURSIVE EscapeText(_)
EscapeText(t) == IF t = <<>> THEN "" ELSE EscapePiece(t[1]) \o EscapeText(Tail(t))

RECURSIVE json_dumps(_)
RECURSIVE DumpPairs(_)
RECURSIVE DumpItems(_)
DumpPairs(ps) ==
    IF ps = <<>> THEN ""
    ELSE "\"" \o ps[1][1] \o "\": " \o json_dumps(ps[1][2])
         \o (IF Len(ps) > 1 THEN ", " ELSE "") \o DumpPairs(Tail(ps))
DumpItems(xs) ==
    IF xs = <<>> THEN ""
    ELSE json_dumps(xs[1]) \o (IF Len(xs) > 1 THEN ", " ELSE "") \o DumpItems(Tail(xs))
json_dumps(x) ==
    CASE x.t = "str" -> "\"" \o EscapeText(x.v) \o "\""
      [] x.t = "num" -> NumRepr(x)
      [] x.t = "obj" -> "{" \o DumpPairs(x.v) \o "}"
      [] x.t = "arr" -> "[" \o DumpItems(x.v) \o "]"

-----------------------------------------------------------------------------
(***************************************************************************)
(* The Tool Executor: ProductManagerAgent._execute_tool.  A call either    *)
(* returns a JSON value or raises.                                         *)
(***************************************************************************)
Return(v) == [kind |-> "return", value |-> v]
Raise(exc) == [kind |-> "raise", exc |-> exc]

Lit(s) == JStr(<<s>>)     \* a string literal of the code

\* n / d rounded to the nearest integer, ties to even (n >= 0, d > 0)
RoundHalfEven(n, d) ==
    LET q == n \div d
        r == n % d
    IN  IF 2 * r > d \/ (2 * r = d /\ q % 2 = 1) THEN q + 1 ELSE q

\* round(n / d, 2), a float
round2(n, d) == JDec(RoundHalfEven(100 * n, d), 2)

\* _interpret_rice_score(score) for score = n / d (d > 0)
interpret_rice_score(n, d) ==
    IF n >= 100 * d THEN "Very High Priority - Strong candidate for immediate development"
    ELSE IF n >= 50 * d THEN "High Priority - Should be prioritized in upcoming sprint"
    ELSE IF n >= 20 * d THEN "Medium Priority - Good addition to roadmap"
    ELSE "Low Priority - Consider for future or deprioritize"

\* rice_score = (reach * impact * confidence / 100) / effort as the fraction n / d
RiceNum(tool_input) ==
    Get(tool_input, "reach").m * Get(tool_input, "impact").m
        * Get(tool_input, "confidence").m * Pow10(Get(tool_input, "effort").e)
RiceDen(tool_input) ==
    Pow10(Get(tool_input, "reach").e + Get(tool_input, "impact").e
            + Get(tool_input, "confidence").e) * 100 * Get(tool_input, "effort").m

calculate_rice_score(tool_input) ==
    IF \E k \in {"reach", "impact", "confidence", "effort"} : ~HasKey(tool_input, k)
    THEN Raise("KeyError")
    ELSE IF Get(tool_input, "effort").m = 0 THEN Raise("ZeroDivisionError")
    ELSE IF ~HasKey(tool_input, "feature_name") THEN Raise("KeyError")
    ELSE LET n == RiceNum(tool_input)
             d == RiceDen(tool_input)
         IN  Return(JObj(<<
                 <<"feature", Get(tool_input, "feature_name")>>,
                 <<"rice_score", round2(n, d)>>,
                 <<"breakdown", JObj(<<
                     <<"reach", Get(tool_input, "reach")>>,
                     <<"impact", Get(tool_input, "impact")>>,
                     <<"confidence", JStr(<<NumRepr(Get(tool_input, "confidence")), "%">>)>>,
                     <<"effort", JStr(<<NumRepr(Get(tool_input, "effort")), " person-months">>)>> >>)>>,
                 <<"interpretation", Lit(interpret_rice_score(n, d))>> >>))

create_user_story(tool_input) ==
    IF \E k \in {"user_type", "goal", "benefit"} : ~HasKey(tool_input, k)
    THEN Raise("KeyError")
    ELSE LET story == <<"As a ">> \o Get(tool_input, "user_type").v \o <<", I want ">>
                        \o Get(tool_input, "goal").v \o <<" so that ">>
                        \o Get(tool_input, "benefit").v \o <<".">>
             result == <<
                 <<"user_story", JStr(story)>>,
                 <<"format", Lit("standard")>>,
                 <<"components", JObj(<<
                     <<"user_type", Get(tool_input, "user_type")>>,
                     <<"goal", Get(tool_input, "goal")>>,
                     <<"benefit", Get(tool_input, "benefit")>> >>)>> >>
         IN  Return(JObj(
                 IF HasKey(tool_input, "acceptance_criteria")
                 THEN Append(result, <<"acceptance_criteria",
                                       Get(tool_input, "acceptance_criteria")>>)
                 ELSE result))

metrics_data ==
    JObj(<<
      <<"dau", JObj(<< <<"current", JInt(15420)>>, <<"previous", JInt(14850)>>,
                       <<"change", Lit("+3.8%")>> >>)>>,
      <<"wau", JObj(<< <<"current", JInt(45200)>>, <<"previous", JInt(43100)>>,
                       <<"change", Lit("+4.9%")>> >>)>>,
      <<"mau", JObj(<< <<"current", JInt(125000)>>, <<"previous", JInt(118000)>>,
                       <<"change", Lit("+5.9%")>> >>)>>,
      <<"retention", JObj(<< <<"day_1", Lit("72%")>>, <<"day_7", Lit("45%")>>,
                             <<"day_30", Lit("28%")>> >>)>>,
      <<"nps", JObj(<< <<"score", JInt(42)>>, <<"promoters", Lit("45%")>>,
                       <<"detractors", Lit("15%")>> >>)>>,
      <<"conversion", JObj(<< <<"rate", Lit("3.2%")>>,
                              <<"funnel", JObj(<< <<"visitors", JInt(10000)>>,
                                                  <<"signups", JInt(320)>> >>)>> >>)>> >>)

analyze_product_metrics(tool_input) ==
    IF \E k \in {"metric_type", "time_period"} : ~HasKey(tool_input, k)
    THEN Raise("KeyError")
    ELSE LET metric_type == Get(tool_input, "metric_type").v
         IN  Return(JObj(<<
                 <<"metric", JStr(Upper(metric_type))>>,
                 <<"time_period", Get(tool_input, "time_period")>>,
                 <<"data", IF HasKey(metrics_data, Flat(metric_type))
                           THEN Get(metrics_data, Flat(metric_type))
                           ELSE JObj(<<>>)>>,
                 <<"note", Lit("This is simulated data. Connect to your analytics platform for real metrics.")>> >>))

Feature(name, status, priority, owner) ==
    JObj(<< <<"name", Lit(name)>>, <<"status", Lit(status)>>,
            <<"priority", Lit(priority)>>, <<"owner", Lit(owner)>> >>)

roadmap ==
    JObj(<<
      <<"current", JObj(<<
          <<"quarter", Lit("Q4 2024")>>,
          <<"features", JArr(<<
              Feature("User authentication v2", "in_progress", "P0", "Backend team"),
              Feature("Mobile app redesign", "planning", "P1", "Mobile team"),
              Feature("Analytics dashboard", "completed", "P0", "Frontend team") >>)>> >>)>>,
      <<"next", JObj(<<
          <<"quarter", Lit("Q1 2025")>>,
          <<"features", JArr(<<
              Feature("AI-powered recommendations", "planned", "P1", "ML team"),
              Feature("Team collaboration features", "planned", "P0", "Backend team"),
              Feature("Advanced reporting", "planned", "P2", "Frontend team") >>)>> >>)>> >>)

get_roadmap(tool_input) ==
    IF ~HasKey(tool_input, "quarter") THEN Raise("KeyError")
    ELSE LET quarter == Flat(Get(tool_input, "quarter").v)
         IN  Return(IF HasKey(roadmap, quarter) THEN Get(roadmap, quarter)
                    ELSE JObj(<< <<"error", Lit("Quarter not found. Try 'current' or 'next'")>> >>))

Capacity(total_points, committed, available, engineers) ==
    JObj(<< <<"total_points", JInt(total_points)>>, <<"committed", JInt(committed)>>,
            <<"available", JInt(available)>>, <<"engineers", JInt(engineers)>> >>)

capacity_data ==
    JObj(<< <<"backend", Capacity(50, 38, 12, 5)>>,
            <<"frontend", Capacity(40, 35, 5, 4)>>,
            <<"mobile", Capacity(30, 25, 5, 3)>> >>)

\* the lookup without .lower()
TeamDataCaseSensitive(team) ==
    IF HasKey(capacity_data, Flat(team)) THEN Get(capacity_data, Flat(team)) ELSE JObj(<<>>)

\* capacity_data.get(team.lower(), {})
TeamData(team) ==
    IF HasKey(capacity_data, Flat(Lower(team))) THEN Get(capacity_data, Flat(Lower(team)))
    ELSE JObj(<<>>)

\* f"{utilization:.1f}%" for utilization = committed / total_points * 100
UtilizationText(team_data) ==
    LET tenths == RoundHalfEven(1000 * Get(team_data, "committed").m,
                                Get(team_data, "total_points").m)
    IN  <<ToString(tenths \div 10), ".", ToString(tenths % 10), "%">>

\* "Good capacity" if utilization < 85 else "Team is at capacity"
Recommendation(team_data) ==
    IF 100 * Get(team_data, "committed").m < 85 * Get(team_data, "total_points").m
    THEN "Good capacity" ELSE "Team is at capacity"

check_team_capacity(tool_input) ==
    IF ~HasKey(tool_input, "team") \/ ~HasKey(tool_input, "time_period")
    THEN Raise("KeyError")
    ELSE LET team == Get(tool_input, "team").v
             team_data == TeamData(team)
         IN  IF team_data.v # <<>>
             THEN Return(JObj(<<
                      <<"team", JStr(team)>>,
                      <<"time_period", Get(tool_input, "time_period")>>,
                      <<"capacity", team_data>>,
                      <<"utilization", JStr(UtilizationText(team_data))>>,
                      <<"recommendation", Lit(Recommendation(team_data))>> >>))
             ELSE Return(JObj(<< <<"error",
                      JStr(<<"Team '">> \o team
                           \o <<"' not found. Available teams: backend, frontend, mobile">>)>> >>))

\* the dispatch with a final `raise ValueError` instead of the error payload
execute_tool_raising(tool_name, tool_input) ==
    CASE Flat(tool_name) = "calculate_rice_score" -> calculate_rice_score(tool_input)
      [] Flat(tool_name) = "create_user_story" -> create_user_story(tool_input)
      [] Flat(tool_name) = "analyze_product_metrics" -> analyze_product_metrics(tool_input)
      [] Flat(tool_name) = "get_roadmap" -> get_roadmap(tool_input)
      [] Flat(tool_name) = "check_team_capacity" -> check_team_capacity(tool_input)
      [] OTHER -> Raise("ValueError")

execute_tool(tool_name, tool_input) ==
    CASE Flat(tool_name) = "calculate_rice_score" -> calculate_rice_score(tool_input)
      [] Flat(tool_name) = "create_user_story" -> create_user_story(tool_input)
      [] Flat(tool_name) = "analyze_product_metrics" -> analyze_product_metrics(tool_input)
      [] Flat(tool_name) = "get_roadmap" -> get_roadmap(tool_input)
      [] Flat(tool_name) = "check_team_capacity" -> check_team_capacity(tool_input)
      [] OTHER -> Return(JObj(<< <<"error", JStr(<<"Unknown tool: ">> \o tool_name)>> >>))

-----------------------------------------------------------------------------
(***************************************************************************)
(* The inputs the executor is tried on.                                    *)
(***************************************************************************)
RECURSIVE Casings(_)
\* every upper/lower casing of a lower-case word
Casings(w) ==
    IF w = <<>> THEN {<<>>}
    ELSE {<<c>> \o rest : c \in {w[1], UpperOf[w[1]]}, rest \in Casings(Tail(w))}

Backend == <<"b", "a", "c", "k", "e", "n", "d">>
Frontend == <<"f", "r", "o", "n", "t", "e", "n", "d">>
Mobile == <<"m", "o", "b", "i", "l", "e">>

KnownTeams == Casings(Backend) \cup Casings(Frontend) \cup Casings(Mobile)
OtherTeams == {<<>>, <<"m", "l">>, <<"b", "a", "c", "k", "e", "n", "d", " ">>,
               <<"b", "a", "c", "k", "-", "e", "n", "d">>, <<"Q", "\"", "A">>}

TeamInput(team) ==
    JObj(<< <<"team", JStr(team)>>, <<"time_period", Lit("next_sprint")>> >>)

RiceInput(reach, impact, confidence, effort) ==
    JObj(<< <<"feature_name", Lit("Dark mode")>>, <<"reach", reach>>, <<"impact", impact>>,
            <<"confidence", confidence>>, <<"effort", effort>> >>)

Reaches == {JInt(100), JInt(101)}
Impacts == {JDec(25, 2), JDec(5, 1), JInt(1), JInt(2), JInt(3)}
Confidences == {JInt(50), JInt(80), JInt(99), JInt(100)}
Efforts == {JInt(n) : n \in 0..MaxEffort}

\* the score lies exactly half way between two hundredths
IsTie(tool_input) ==
    /\ RiceDen(tool_input) # 0
    /\ 2 * ((100 * RiceNum(tool_input)) % RiceDen(tool_input)) = RiceDen(tool_input)

RiceInputs ==
    {ti \in {RiceInput(r, i, c, e) : r \in Reaches, i \in Impacts,
                                     c \in Confidences, e \in Efforts} : ~IsTie(ti)}

Call(name, tool_input) == [name |-> <<name>>, input |-> tool_input]

UnknownNames == {<<"frobnicate">>, <<>>, <<"Get_Roadmap">>, <<"calculate_rice_score", " ">>,
                 <<"rice", "\"", "score">>}
UnknownQuarters == {<<"Q1_2024">>, <<"Current">>, <<>>, <<"next", " ">>}
Metrics == {<<"d", "a", "u">>, <<"w", "a", "u">>, <<"m", "a", "u">>,
            <<"r", "e", "t", "e", "n", "t", "i", "o", "n">>, <<"n", "p", "s">>,
            <<"c", "o", "n", "v", "e", "r", "s", "i", "o", "n">>, <<"D", "A", "U">>, <<"c", "h", "u", "r", "n">>}

StoryInput(withCriteria) ==
    JObj(<< <<"user_type", Lit("customer")>>, <<"goal", Lit("to export reports")>>,
            <<"benefit", Lit("I can share them")>> >>
         \o (IF withCriteria
             THEN << <<"acceptance_criteria", JArr(<<Lit("CSV"), Lit("PDF")>>)>> >>
             ELSE <<>>))

Invocations ==
    {Call("calculate_rice_score", ti) : ti \in RiceInputs}
    \cup {Call("check_team_capacity", TeamInput(t)) : t \in KnownTeams \cup OtherTeams}
    \cup {Call("check_team_capacity", JObj(<< <<"team", JStr(Backend)>> >>))}
    \cup {Call("get_roadmap", JObj(<< <<"quarter", JStr(q)>> >>)) :
             q \in {<<"current">>, <<"next">>} \cup UnknownQuarters}
    \cup {Call("get_roadmap", JObj(<<>>))}
    \cup {Call("analyze_product_metrics",
               JObj(<< <<"metric_type", JStr(mt)>>, <<"time_period", Lit("last_week")>> >>)) :
             mt \in Metrics}
    \cup {Call("create_user_story", StoryInput(b)) : b \in BOOLEAN}
    \cup {[name |-> n, input |-> ti] : n \in UnknownNames,
                                        ti \in {JObj(<<>>), TeamInput(Backend)}}

NoInvocation == [name |-> <<>>, input |-> JObj(<<>>)]
NotRun == [kind |-> "none"]

-----------------------------------------------------------------------------
(***************************************************************************)
(* What the operator types and what the provider answers.                  *)
(***************************************************************************)
QuitWords == {<<"q", "u", "i", "t">>, <<"e", "x", "i", "t">>, <<"q">>}

EmptyLines == {<<>>, <<" ">>, <<" ", "\t", " ">>}
QuitLines ==
    QuitWords
    \cup {<<"Q">>, <<"Q", "U", "I", "T">>, <<"Q", "u", "i", "t">>, <<"q", "U", "i", "T">>,
          <<"E", "X", "I", "T">>, <<"e", "X", "i", "t">>}
    \cup {<<" ", "q", "u", "i", "t">>, <<"E", "x", "i", "t", " ", " ">>, <<"\t", "Q", "\t">>}
QueryLines ==
    {<<"h", "i">>, <<" ", "h", "i", " ">>, <<"q", "u", "i", "t", " ", "n", "o", "w">>,
     <<"q", "q">>}
Lines == EmptyLines \cup QuitLines \cup QueryLines

TextBlock(t) == [type |-> "text", text |-> t]
ThinkingBlock(t) == [type |-> "thinking", thinking |-> t]
ToolUse(id, name, tool_input) ==
    [type |-> "tool_use", id |-> id, name |-> <<name>>, input |-> tool_input]

Response(stop_reason, content) == [stop_reason |-> stop_reason, content |-> content]

RiceBlock(id, effort) ==
    ToolUse(id, "calculate_rice_score", RiceInput(JInt(100), JInt(1), JInt(100), JInt(effort)))

Responses ==
    { Response("end_turn", <<TextBlock(<<"Ship ">>), TextBlock(<<"it.">>)>>),
      Response("end_turn", <<>>),
      Response("end_turn", <<ThinkingBlock(<<"hm">>), TextBlock(<<"A">>),
                             RiceBlock("toolu_0", 5), TextBlock(<<"B">>)>>),
      Response("tool_use", <<TextBlock(<<"Scoring.">>), RiceBlock("toolu_1", 5)>>),
      Response("tool_use", <<ToolUse("toolu_2", "frobnicate", JObj(<<>>)),
                             ToolUse("toolu_3", "get_roadmap",
                                     JObj(<< <<"quarter", JStr(<<"Q1_2024">>)>> >>)),
                             ToolUse("toolu_4", "check_team_capacity",
                                     TeamInput(<<"m", "l">>))>>),
      Response("tool_use", <<ToolUse("toolu_5", "get_roadmap",
                                     JObj(<< <<"quarter", JStr(<<"current">>)>> >>)),
                             RiceBlock("toolu_6", 0),
                             ToolUse("toolu_7", "check_team_capacity",
                                     TeamInput(<<"B", "a", "c", "k", "e", "n", "d">>))>>),
      Response("tool_use", <<>>),
      Response("max_tokens", <<TextBlock(<<"Partial">>), RiceBlock("toolu_8", 5)>>),
      Response("stop_sequence", <<>>) }

NoResponse == Response("none", <<>>)
ProviderErrors == {"APIConnectionError", "RateLimitError"}

-----------------------------------------------------------------------------
(***************************************************************************)
(* The Agent Loop: ProductManagerAgent.run.                                *)
(***************************************************************************)
RECURSIVE final_response_prepending(_)
\* final_response = block.text + final_response
final_response_prepending(content) ==
    IF content = <<>> THEN <<>>
    ELSE final_response_prepending(Tail(content))
         \o (IF "text" \in DOMAIN Head(content) THEN Head(content).text ELSE <<>>)

RECURSIVE final_response(_)
\* the text of the blocks that have a `text` attribute, concatenated in order
final_response(content) ==
    IF content = <<>> THEN <<>>
    ELSE (IF "text" \in DOMAIN Head(content) THEN Head(content).text ELSE <<>>)
         \o final_response(Tail(content))

\* the entry keyed by the tool's name instead of the block's id
ToolResultEntryByName(block, tool_result) ==
    [type |-> "tool_result", tool_use_id |-> Flat(block.name),
     content |-> json_dumps(tool_result)]

ToolResultEntry(block, tool_result) ==
    [type |-> "tool_result", tool_use_id |-> block.id, content |-> json_dumps(tool_result)]

RECURSIVE ToolLoop(_, _)
\* the loop over response.content: st holds tool_results, the calls made so far
\* and the exception that ended the loop (or "none")
ToolLoop(content, st) ==
    IF content = <<>> THEN st
    ELSE LET block == Head(content)
         IN  IF block.type # "tool_use" THEN ToolLoop(Tail(content), st)
             ELSE LET tool_result == execute_tool(block.name, block.input)
                      calls == Append(st.calls, [name |-> block.name, input |-> block.input])
                  IN  IF tool_result.kind = "raise"
                      THEN [st EXCEPT !.calls = calls, !.raised = tool_result.exc]
                      ELSE ToolLoop(Tail(content),
                                    [st EXCEPT !.calls = calls,
                                               !.tool_results =
                                                   Append(@, ToolResultEntry(block, tool_result.value))])

RunTools(content) == ToolLoop(content, [tool_results |-> <<>>, calls |-> <<>>, raised |-> "none"])

\* the message without the stop reason
UnexpectedStopUnnamed(stop_reason) == "Unexpected stop reason"

UnexpectedStop(stop_reason) == "Unexpected stop reason: " \o stop_reason

\* the conversation kept from one call of run to the next
FirstMessagesCarriedOver(user_message) ==
    Append(messages, [role |-> "user", content |-> user_message])

\* messages = [{"role": "user", "content": user_message}]
FirstMessages(user_message) == <<[role |-> "user", content |-> user_message]>>

\* the assistant's response left out of the conversation
WithAssistantForgotten(msgs, content) == msgs

\* messages.append({"role": "assistant", "content": response.content})
WithAssistant(msgs, content) == Append(msgs, [role |-> "assistant", content |-> content])

\* messages.append({"role": "user", "content": tool_results})
WithResults(msgs, tool_results) == Append(msgs, [role |-> "user", content |-> tool_results])

-----------------------------------------------------------------------------
(***************************************************************************)
(* The Session Shell: main's while loop and its two except clauses.        *)
(***************************************************************************)
\* main without its `except Exception` clause: any exception ends the loop
AfterExceptionUncaught(exc) == "ended"

\* where main is after an exception reaches its try statement
AfterException(exc) ==
    IF exc = "KeyboardInterrupt" THEN "ended"      \* except KeyboardInterrupt: break
    ELSE "reading"                                 \* except Exception: print, loop again

\* With track = FALSE a step leaves the data that grows without bound (the
\* conversation, the histories, the turn count) as it is.  Neither run nor main
\* reads any of it to decide what to do next, so the step is enabled in the same
\* control states and moves to the same control state.
Keep(track, new, old) == IF track THEN new ELSE old


Printed(kind, text) == [kind |-> kind, text |-> text]

SessionInit ==
    /\ shell = "reading"
    /\ line = <<>>
    /\ messages = <<>>
    /\ response = NoResponse
    /\ sentLog = <<>>
    /\ recvLog = <<>>
    /\ toolLog = <<>>
    /\ lastOutput = Printed("none", "")
    /\ lastEvent = "start"
    /\ prevEnd = "none"
    /\ turns = 0

Init == SessionInit /\ invocation = NoInvocation /\ toolResult = NotRun

\* input() returns l: strip it, skip it if empty, leave on quit/exit/q, else
\* enter agent.run, which builds `messages` and goes to its first request
ReadLine(l, track) ==
    /\ shell = "reading"
    /\ line' = l
    /\ UNCHANGED <<invocation, toolResult>>
    /\ LET user_input == Strip(l)
       IN  IF user_input = <<>>
           THEN /\ lastEvent' = "empty_input"
                /\ UNCHANGED <<shell, messages, response, sentLog, recvLog, toolLog,
                               lastOutput, prevEnd, turns>>
           ELSE IF Flat(Lower(user_input)) \in {"quit", "exit", "q"}
           THEN /\ shell' = "ended"
                /\ lastEvent' = "quit"
                /\ UNCHANGED <<messages, response, sentLog, recvLog, toolLog,
                               lastOutput, prevEnd, turns>>
           ELSE /\ track => turns < MaxTurns
                /\ shell' = "calling"
                /\ messages' = FirstMessages(user_input)
                /\ response' = NoResponse
                /\ sentLog' = <<>>
                /\ recvLog' = <<>>
                /\ toolLog' = <<>>
                /\ turns' = Keep(track, turns + 1, turns)
                /\ lastEvent' = "turn_started"
                /\ UNCHANGED <<lastOutput, prevEnd>>

\* input() raises (end of input): caught by `except Exception`
InputFails ==
    /\ shell = "reading"
    /\ shell' = AfterException("EOFError")
    /\ lastOutput' = Printed("error", "EOFError")
    /\ lastEvent' = "input_error"
    /\ UNCHANGED <<line, messages, response, sentLog, recvLog, toolLog, prevEnd, turns, invocation, toolResult>>

\* the operator interrupts, at the prompt or during a turn
Interrupt ==
    /\ shell \in {"reading", "calling", "handling"}
    /\ shell' = AfterException("KeyboardInterrupt")
    /\ lastEvent' = "interrupt"
    /\ UNCHANGED <<line, messages, response, sentLog, recvLog, toolLog, lastOutput, prevEnd, turns, invocation, toolResult>>

\* self.client.messages.create(..., messages=messages) returns r
ProviderResponds(r, track) ==
    /\ shell = "calling"
    /\ track => Len(sentLog) < MaxRequests
    /\ sentLog' = Keep(track, Append(sentLog, messages), sentLog)
    /\ recvLog' = Keep(track, Append(recvLog, r), recvLog)
    /\ response' = r
    /\ shell' = "handling"
    /\ lastEvent' = "response_received"
    /\ UNCHANGED <<line, messages, toolLog, lastOutput, prevEnd, turns, invocation, toolResult>>

\* self.client.messages.create raises exc: run does not catch it, main does
ProviderFails(exc, track) ==
    /\ shell = "calling"
    /\ track => Len(sentLog) < MaxRequests
    /\ sentLog' = Keep(track, Append(sentLog, messages), sentLog)
    /\ shell' = AfterException(exc)
    /\ lastOutput' = Printed("error", exc)
    /\ lastEvent' = "provider_fault"
    /\ prevEnd' = "fault"
    /\ UNCHANGED <<line, messages, response, recvLog, toolLog, turns, invocation, toolResult>>

\* the rest of the loop body of run, after messages.create returned
HandleResponse(track) ==
    /\ shell = "handling"
    /\ IF response.stop_reason = "end_turn"
       THEN /\ shell' = "reading"
            /\ lastOutput' = Printed("response", Flat(final_response(response.content)))
            /\ lastEvent' = "returned_text"
            /\ prevEnd' = "text"
            /\ UNCHANGED <<messages, toolLog>>
       ELSE IF response.stop_reason = "tool_use"
       THEN LET done == RunTools(response.content)
                appended == WithAssistant(messages, response.content)
            IN  /\ toolLog' = Keep(track, toolLog \o done.calls, toolLog)
                /\ IF done.raised # "none"
                   THEN /\ shell' = AfterException(done.raised)
                        /\ messages' = Keep(track, appended, messages)
                        /\ lastOutput' = Printed("error", done.raised)
                        /\ lastEvent' = "tool_fault"
                        /\ prevEnd' = "fault"
                   ELSE /\ shell' = "calling"
                        /\ messages' = Keep(track, WithResults(appended, done.tool_results),
                                            messages)
                        /\ lastEvent' = "tools_done"
                        /\ UNCHANGED <<lastOutput, prevEnd>>
       ELSE /\ shell' = "reading"
            /\ lastOutput' = Printed("response", UnexpectedStop(response.stop_reason))
            /\ lastEvent' = "unexpected_stop"
            /\ prevEnd' = "unexpected"
            /\ UNCHANGED <<messages, toolLog>>
    /\ UNCHANGED <<line, response, sentLog, recvLog, turns, invocation, toolResult>>

Next ==
    \/ \E l \in Lines : ReadLine(l, TRUE)
    \/ InputFails
    \/ Interrupt
    \/ \E r \in Responses : ProviderResponds(r, TRUE)
    \/ \E exc \in ProviderErrors : ProviderFails(exc, TRUE)
    \/ HandleResponse(TRUE)

Spec == Init /\ [][Next]_vars

-----------------------------------------------------------------------------
(***************************************************************************)
(* The session with its unbounded data left out, for liveness.  The steps  *)
(* of a turn are weakly fair: the interpreter keeps running run's loop and *)
(* the blocking call to the provider comes back (with a response or with   *)
(* an exception).  Nothing obliges the operator to type.                   *)
(***************************************************************************)
TurnStep ==
    \/ \E r \in Responses : ProviderResponds(r, FALSE)
    \/ \E exc \in ProviderErrors : ProviderFails(exc, FALSE)
    \/ HandleResponse(FALSE)

ShellStep ==
    \/ \E l \in Lines : ReadLine(l, FALSE)
    \/ InputFails
    \/ Interrupt

LiveNext == TurnStep \/ ShellStep

LiveSpec == Init /\ [][LiveNext]_vars /\ WF_vars(TurnStep)

-----------------------------------------------------------------------------
(***************************************************************************)
(* The executor on its own: one call of _execute_tool on a drawn input.    *)
(***************************************************************************)
ToolInit == SessionInit /\ invocation \in Invocations /\ toolResult = NotRun

Execute ==
    /\ toolResult = NotRun
    /\ invocation # NoInvocation
    /\ toolResult' = execute_tool(invocation.name, invocation.input)
    /\ UNCHANGED <<invocation, sessionVars>>

ToolNext == Execute

ToolSpec == ToolInit /\ [][ToolNext]_vars

-----------------------------------------------------------------------------
(***************************************************************************)
(* Properties.                                                             *)
(***************************************************************************)
IsToolUse(block) == block.type = "tool_use"
ToolUseBlocks(content) == SelectSeq(content, IsToolUse)

RECURSIVE ToolCallsOf(_)
\* what the tool_use blocks of a sequence of responses ask for, in order
ToolCallsOf(responses) ==
    IF responses = <<>> THEN <<>>
    ELSE LET blocks == ToolUseBlocks(Head(responses).content)
         IN  [i \in 1..Len(blocks) |-> [name |-> blocks[i].name, input |-> blocks[i].input]]
             \o ToolCallsOf(Tail(responses))

AnswersAll(results, content) ==
    LET blocks == ToolUseBlocks(content)
    IN  /\ Len(results) = Len(blocks)
        /\ \A i \in 1..Len(blocks) :
              /\ results[i].type = "tool_result"
              /\ results[i].tool_use_id = blocks[i].id

Last(seq) == seq[Len(seq)]
AllButLast(seq) == SubSeq(seq, 1, Len(seq) - 1)

\* the events of run: a request was made, or a response was handled
HandledEvents == {"returned_text", "tools_done", "tool_fault", "unexpected_stop"}
RunEvents == HandledEvents \cup {"response_received", "provider_fault"}

\* C1: in run, every conversation sent after a tool_use response ends with a
\* user message holding exactly one tool_result per tool_use block of that
\* response, in the blocks' order and with the blocks' ids, right after the
\* assistant message holding the response; and no request is made between a
\* response and the appending of its results (requests and responses alternate).
C1_OneResultPerToolUse ==
    /\ Len(sentLog) \in {Len(recvLog), Len(recvLog) + 1}
    /\ shell \in {"calling", "handling"} => Len(sentLog) = Len(recvLog)
    /\ \A n \in 2..Len(sentLog) :
          LET conv == sentLog[n]
          IN  /\ recvLog[n - 1].stop_reason = "tool_use"
              /\ Last(conv).role = "user"
              /\ AnswersAll(Last(conv).content, recvLog[n - 1].content)
              /\ conv[Len(conv) - 1] =
                     [role |-> "assistant", content |-> recvLog[n - 1].content]
    /\ lastEvent = "tools_done" =>
          /\ Last(messages).role = "user"
          /\ AnswersAll(Last(messages).content, response.content)
          /\ Len(sentLog) = Len(recvLog)

C1_Witness ==
    /\ Len(sentLog) >= 2
    /\ Len(ToolUseBlocks(recvLog[1].content)) = 3
    /\ Len(Last(sentLog[2]).content) = 3
    /\ Last(sentLog[2]).content[3].tool_use_id = "toolu_4"

\* C2: every call of run eventually returns (or raises): a turn that has begun
\* is eventually over, whatever the provider answers.
C2_RunReturns == (shell \in {"calling", "handling"}) ~> (shell \in {"reading", "ended"})

\* C3: a response whose stop reason is neither end_turn nor tool_use ends run at
\* once: no tool is executed for it, nothing is appended to the conversation, no
\* further request is made, and run returns the message naming the stop reason.
C3_UnexpectedStop ==
    /\ (lastEvent \in HandledEvents /\ response.stop_reason \notin {"end_turn", "tool_use"})
          => lastEvent = "unexpected_stop"
    /\ lastEvent = "unexpected_stop" =>
          /\ response = Last(recvLog)
          /\ response.stop_reason \notin {"end_turn", "tool_use"}
          /\ shell = "reading"
          /\ lastOutput = Printed("response", "Unexpected stop reason: " \o response.stop_reason)
          /\ messages = Last(sentLog)
          /\ Len(sentLog) = Len(recvLog)
          /\ toolLog = ToolCallsOf(AllButLast(recvLog))

C3_Witness ==
    /\ lastEvent = "unexpected_stop"
    /\ response.stop_reason = "max_tokens"
    /\ ToolUseBlocks(response.content) # <<>>
    /\ Len(recvLog) = 2
    /\ lastOutput.text = "Unexpected stop reason: max_tokens"

RECURSIVE TextOf(_)
\* the texts of the blocks that carry one, joined in order
TextOf(content) ==
    IF content = <<>> THEN ""
    ELSE (IF "text" \in DOMAIN content[1] THEN Flat(content[1].text) ELSE "")
         \o TextOf(Tail(content))

\* C4: on an end_turn response run returns the texts of its text-bearing blocks
\* joined in order ("" if there are none), executes no tool for it and makes no
\* further request.
C4_EndTurnText ==
    /\ (lastEvent \in HandledEvents /\ response.stop_reason = "end_turn")
          => lastEvent = "returned_text"
    /\ lastEvent = "returned_text" =>
          /\ response = Last(recvLog)
          /\ response.stop_reason = "end_turn"
          /\ lastOutput = Printed("response", TextOf(response.content))
          /\ shell = "reading"
          /\ messages = Last(sentLog)
          /\ Len(sentLog) = Len(recvLog)
          /\ toolLog = ToolCallsOf(AllButLast(recvLog))

C4_Witness ==
    /\ lastEvent = "returned_text"
    /\ Len(response.content) = 4
    /\ ToolUseBlocks(response.content) # <<>>
    /\ lastOutput.text = "AB"
    /\ toolLog = <<>>

IsRiceCall(call) ==
    /\ Flat(call.name) = "calculate_rice_score"
    /\ \A k \in {"feature_name", "reach", "impact", "confidence", "effort"} :
          HasKey(call.input, k)

\* the band of a score given in hundredths, lower thresholds inclusive
BandOfHundredths(h) ==
    IF h >= 10000 THEN "Very High Priority - Strong candidate for immediate development"
    ELSE IF h >= 5000 THEN "High Priority - Should be prioritized in upcoming sprint"
    ELSE IF h >= 2000 THEN "Medium Priority - Good addition to roadmap"
    ELSE "Low Priority - Consider for future or deprioritize"

\* C5: with effort > 0, rice_score is reach * impact * (confidence / 100) / effort
\* rounded to two decimals (the hundredth nearest to it), and interpretation is
\* the band of that returned score: >= 100, >= 50, >= 20, else low.
C5_RiceScoreAndBand ==
    (toolResult # NotRun /\ IsRiceCall(invocation) /\ Get(invocation.input, "effort").m > 0) =>
        /\ toolResult.kind = "return"
        /\ LET score == Get(toolResult.value, "rice_score")
               n == RiceNum(invocation.input)
               d == RiceDen(invocation.input)
               diff == 100 * n - score.m * d
           IN  /\ score.e = 2
               /\ 2 * (IF diff < 0 THEN -diff ELSE diff) <= d
               /\ Get(toolResult.value, "interpretation") = Lit(BandOfHundredths(score.m))

IsTeamCall(call) ==
    /\ Flat(call.name) = "check_team_capacity"
    /\ HasKey(call.input, "team")
    /\ HasKey(call.input, "time_period")

TeamAnswer(value, utilization, recommendation) ==
    /\ HasKey(value, "utilization")
    /\ Flat(Get(value, "utilization").v) = utilization
    /\ Flat(Get(value, "recommendation").v) = recommendation
    /\ LET capacity == Get(value, "capacity")
       IN  (recommendation = "Good capacity")
              <=> (100 * Get(capacity, "committed").m < 85 * Get(capacity, "total_points").m)

\* C7: check_team_capacity answers, for every casing of backend, frontend and
\* mobile, with committed / total_points * 100 to one decimal and a percent sign,
\* and with "Good capacity" exactly when that is below 85: 76.0% and good for
\* backend, 87.5% and at capacity for frontend, 83.3% and good for mobile; for
\* any other team it returns an error payload naming the three teams.
C7_TeamCapacity ==
    (toolResult # NotRun /\ IsTeamCall(invocation)) =>
        LET team == Get(invocation.input, "team").v
        IN  /\ toolResult.kind = "return"
            /\ team \in Casings(Backend) =>
                  TeamAnswer(toolResult.value, "76.0%", "Good capacity")
            /\ team \in Casings(Frontend) =>
                  TeamAnswer(toolResult.value, "87.5%", "Team is at capacity")
            /\ team \in Casings(Mobile) =>
                  TeamAnswer(toolResult.value, "83.3%", "Good capacity")
            /\ team \notin KnownTeams =>
                  /\ Len(toolResult.value.v) = 1
                  /\ HasKey(toolResult.value, "error")
                  /\ Flat(Get(toolResult.value, "error").v) =
                        "Team '" \o Flat(team)
                        \o "' not found. Available teams: backend, frontend, mobile"

C7_Witness ==
    /\ toolResult # NotRun
    /\ IsTeamCall(invocation)
    /\ Get(invocation.input, "team").v = <<"F", "r", "o", "n", "t", "E", "n", "d">>
    /\ toolResult.kind = "return"
    /\ TeamAnswer(toolResult.value, "87.5%", "Team is at capacity")

ErrorJson(text) == "{\"error\": \"" \o text \o "\"}"

UnknownToolJson(name) == ErrorJson("Unknown tool: " \o EscapeText(name))
UnknownQuarterJson == ErrorJson("Quarter not found. Try 'current' or 'next'")
UnknownTeamJson(team) ==
    ErrorJson("Team '" \o EscapeText(team)
              \o "' not found. Available teams: backend, frontend, mobile")

CatalogNames == {"calculate_rice_score", "create_user_story", "analyze_product_metrics",
                 "get_roadmap", "check_team_capacity"}

\* whether a call is one of the unknown-name / unknown-key cases, and the JSON
\* text of the error payload it is to be answered with ("" if it is none of them)
ExpectedErrorJson(call) ==
    IF Flat(call.name) \notin CatalogNames THEN UnknownToolJson(call.name)
    ELSE IF /\ Flat(call.name) = "get_roadmap"
            /\ HasKey(call.input, "quarter")
            /\ Flat(Get(call.input, "quarter").v) \notin {"current", "next"}
    THEN UnknownQuarterJson
    ELSE IF IsTeamCall(call) /\ Get(call.input, "team").v \notin KnownTeams
    THEN UnknownTeamJson(Get(call.input, "team").v)
    ELSE ""

ErrorsAnswered(results, content) ==
    LET blocks == ToolUseBlocks(content)
    IN  \A i \in 1..Len(blocks) :
            ExpectedErrorJson(blocks[i]) # "" =>
                /\ i <= Len(results)
                /\ results[i] = [type |-> "tool_result", tool_use_id |-> blocks[i].id,
                                 content |-> ExpectedErrorJson(blocks[i])]

ReturnsErrorPayload(call) ==
    LET r == execute_tool(call.name, call.input)
    IN  /\ r.kind = "return"
        /\ Len(r.value.v) = 1
        /\ HasKey(r.value, "error")
        /\ json_dumps(r.value) = ExpectedErrorJson(call)
        /\ ExpectedErrorJson(call) # ""

\* the executor on every unknown name and unknown key drawn above
UnknownsReturnErrorPayloads ==
    /\ \A n \in UnknownNames, ti \in {JObj(<<>>), TeamInput(Backend)} :
          ReturnsErrorPayload([name |-> n, input |-> ti])
    /\ \A q \in UnknownQuarters :
          ReturnsErrorPayload(Call("get_roadmap", JObj(<< <<"quarter", JStr(q)>> >>)))
    /\ \A t \in OtherTeams : ReturnsErrorPayload(Call("check_team_capacity", TeamInput(t)))

\* C6: the executor does not raise for an unknown tool name, an unknown quarter
\* or an unknown team but returns an error payload; and in run that payload is
\* serialized into its tool_result entry like any result, the result message is
\* appended and run goes on to its next request, which carries it.  (The first
\* conjunct does not depend on the state and is evaluated before the first turn.)
C6_ErrorPayloadsFedBack ==
    /\ turns = 0 => UnknownsReturnErrorPayloads
    /\ \A n \in 2..Len(sentLog) :
          ErrorsAnswered(Last(sentLog[n]).content, recvLog[n - 1].content)
    /\ lastEvent = "tools_done" =>
          /\ shell = "calling"
          /\ Last(messages).role = "user"
          /\ ErrorsAnswered(Last(messages).content, response.content)
    /\ lastEvent = "tool_fault" => ExpectedErrorJson(Last(toolLog)) = ""
    /\ (lastEvent \in HandledEvents /\ response.stop_reason = "tool_use")
          => lastEvent \in {"tools_done", "tool_fault"}

C6_Witness ==
    /\ lastEvent = "response_received"
    /\ Len(sentLog) = 2
    /\ Last(sentLog[2]).content =
          << [type |-> "tool_result", tool_use_id |-> "toolu_2",
              content |-> "{\"error\": \"Unknown tool: frobnicate\"}"],
             [type |-> "tool_result", tool_use_id |-> "toolu_3",
              content |-> "{\"error\": \"Quarter not found. Try 'current' or 'next'\"}"],
             [type |-> "tool_result", tool_use_id |-> "toolu_4",
              content |-> "{\"error\": \"Team 'ml' not found. Available teams: backend, frontend, mobile\"}"] >>

\* C8: an exception raised during a turn, by the provider call or by a tool, is
\* caught by main: the turn is over with no further request and no tool-result
\* message (whole or partial) added, main is back at its prompt ready to read
\* the next line, and only quit/exit/q or an interruption ends the session.
C8_FaultsCaughtByShell ==
    /\ lastEvent \in {"provider_fault", "tool_fault"} =>
          /\ shell = "reading"
          /\ ENABLED ReadLine(<<"h", "i">>, FALSE)
          /\ lastOutput.kind = "error"
          /\ prevEnd = "fault"
    /\ lastEvent = "provider_fault" =>
          /\ messages = Last(sentLog)
          /\ Len(sentLog) = Len(recvLog) + 1
    /\ lastEvent = "tool_fault" =>
          /\ Len(sentLog) = Len(recvLog)
          /\ messages = Append(Last(sentLog),
                               [role |-> "assistant", content |-> response.content])
          /\ lastOutput.text \in {"ZeroDivisionError", "KeyError"}
    /\ shell = "ended" => lastEvent \in {"quit", "interrupt"}
    /\ lastEvent = "quit" => Flat(Lower(Strip(line))) \in {"quit", "exit", "q"}

C8_Witness ==
    /\ lastEvent = "tool_fault"
    /\ shell = "reading"
    /\ lastOutput = Printed("error", "ZeroDivisionError")
    /\ Len(ToolUseBlocks(response.content)) = 3
    /\ Len(toolLog) = 2
    /\ turns < MaxTurns

UserMessage(text) == [role |-> "user", content |-> text]

\* C9, as claimed: a whitespace-only line makes no request; quit, exit or q in
\* any letter case ends the session with no request; every other line starts a
\* turn whose first request carries exactly one user message holding that line.
C9_TurnHoldsTheLine ==
    /\ lastEvent \in {"empty_input", "quit", "turn_started"} =>
          /\ Strip(line) = <<>> => (lastEvent = "empty_input" /\ shell = "reading")
          /\ Flat(Lower(line)) \in {"quit", "exit", "q"} =>
                (lastEvent = "quit" /\ shell = "ended")
          /\ (Strip(line) # <<>> /\ Flat(Lower(line)) \notin {"quit", "exit", "q"}) =>
                (lastEvent = "turn_started" /\ shell = "calling" /\ sentLog = <<>>
                 /\ messages = <<UserMessage(line)>>)
    /\ (lastEvent \in RunEvents) => sentLog[1] = <<UserMessage(line)>>

\* C9, amended: the line is stripped of leading and trailing whitespace first;
\* an empty result makes no request; quit, exit or q in any letter case ends
\* the session with no request; anything else starts a turn whose first request
\* carries exactly one user message holding the stripped line, whatever the
\* turns before it did.
C9_TurnHoldsTheStrippedLine ==
    /\ lastEvent \in {"empty_input", "quit", "turn_started"} =>
          /\ Strip(line) = <<>> => (lastEvent = "empty_input" /\ shell = "reading")
          /\ Flat(Lower(Strip(line))) \in {"quit", "exit", "q"} =>
                (lastEvent = "quit" /\ shell = "ended")
          /\ (Strip(line) # <<>> /\ Flat(Lower(Strip(line))) \notin {"quit", "exit", "q"}) =>
                (lastEvent = "turn_started" /\ shell = "calling" /\ sentLog = <<>>
                 /\ messages = <<UserMessage(Strip(line))>>)
    /\ lastEvent = "empty_input" => shell = "reading"
    /\ (lastEvent \in RunEvents) => sentLog[1] = <<UserMessage(Strip(line))>>

C9_Witness ==
    /\ lastEvent = "response_received"
    /\ Len(sentLog) = 1
    /\ prevEnd = "fault"
    /\ line = <<" ", "h", "i", " ">>
    /\ sentLog[1] = <<UserMessage(<<"h", "i">>)>>

\* C10: in one call of run the n-th request carries 2n-1 messages that start
\* with the original user message, alternate user/assistant, end with a user
\* message and extend the conversation of the request before unchanged; so when
\* run returns on end_turn after k tool_use responses it has made k+1 requests,
\* called the executor once per tool_use block, appended k result messages (the
\* end_turn response not being appended) and returns the joined text.
C10_AppendOnlyAlternating ==
    /\ \A n \in 1..Len(sentLog) :
          LET conv == sentLog[n]
          IN  /\ Len(conv) = 2 * n - 1
              /\ conv[1] = sentLog[1][1]
              /\ \A i \in 1..Len(conv) :
                    conv[i].role = (IF i % 2 = 1 THEN "user" ELSE "assistant")
              /\ n > 1 => SubSeq(conv, 1, Len(conv) - 2) = sentLog[n - 1]
    /\ lastEvent \in RunEvents => sentLog[1] = <<UserMessage(Strip(line))>>
    /\ lastEvent = "returned_text" =>
          LET k == Len(recvLog) - 1
          IN  /\ \A j \in 1..k : recvLog[j].stop_reason = "tool_use"
              /\ Len(sentLog) = k + 1
              /\ toolLog = ToolCallsOf(AllButLast(recvLog))
              /\ Len(messages) = 2 * k + 1
              /\ messages = Last(sentLog)
              /\ lastOutput = Printed("response", TextOf(Last(recvLog).content))

C10_Witness ==
    /\ lastEvent = "returned_text"
    /\ Len(recvLog) = 3
    /\ Len(toolLog) = 4
    /\ Len(messages) = 5
    /\ lastOutput.text = "Ship it."

====
